---- MODULE Spec2Model ----
(***************************************************************************)
(* A model of the extraction-and-normalisation engine of parser-sample:    *)
(* src/parsing/parser.py (storage adapters, BasicParser and the Customer / *)
(* Order / Contract parsers, the text normalisers) and the driver loop of  *)
(* src/parsing/utils.py.                                                   *)
(*                                                                         *)
(* Strings are sequences of one-character strings, so that the regular     *)
(* expressions, joins and comparisons of the code are computed and not     *)
(* assumed.  Several specifications share the variables; each one drives   *)
(* one part of the program and leaves the other variables alone:           *)
(*   Spec       parse_url: Contract -> Order -> Customer extraction        *)
(*   SpecTable  BasicParser._get_from_table                                *)
(*   SpecStore  StorageAdapterSQLite.set_identifiers on one connection     *)
(*   SpecId     _parse_id of the three parsers                             *)
(*   SpecRoll   StorageAdapterDataframe.add_main_data / roll_data          *)
(*   SpecFrames StorageAdapterDataframe.add_table / set_identifiers        *)
(*   SpecWrite  StorageAdapterSQLite.add_table / add_main_data / _add_rows *)
(*   SpecText   preprocess_str and preprocess_col_names                    *)
(*   SpecSection BasicParser._get_from_single_section                      *)
(*   SpecPages  _create_trade_section of OrderParser and ContractParser    *)
(*   SpecShared parse_sites with one in-memory adapter for every url       *)
(***************************************************************************)
EXTENDS Integers, Sequences, FiniteSets, TLC

VARIABLES
    \* ---- BasicParser._get_from_table (SpecTable)
    tblPc,        \* position in _get_from_table: "open", "rows", "done"
    columns,      \* the local `columns`: header names + additional + spec
    data,         \* the local `data`: None or the rows of the frame
    body,         \* the body rows read so far (parsed_rows[0..i])
    tblErrs,      \* add_error_data calls made by the table extractors
    \* ---- StorageAdapterSQLite on one connection (SpecStore, Spec)
    db,           \* the database behind db_connection: table name -> table
    sa,           \* the adapter in hand: _data_id, _main_table, is_new
    stCall,       \* the last set_identifiers call: arguments, table before, outcome
    \* ---- _parse_id of the three parsers (SpecId)
    pidKind,      \* which parser class resolves the ids
    pidDocs,      \* the documents whose ids are resolved, in order
    pidIds,       \* the _id resolved for each document so far
    \* ---- StorageAdapterDataframe (SpecRoll)
    dfMain,       \* _data_labels['main']: column names and the values of its row
    dfPre,        \* _data_labels['main'] as roll_data found it, while nothing was added since
    dfWrites,     \* number of add_main_data calls so far
    \* ---- StorageAdapterDataframe._data_labels (SpecFrames)
    fdLabels,     \* _data_labels: key -> the frame stored under it
    fdId,         \* _data_id of the adapter
    fdCalls,      \* the add_table and set_identifiers calls made, in order
    \* ---- StorageAdapterSQLite writes on one connection (SpecWrite)
    dbc,          \* db_connection: tables, what is committed, what the open transaction holds
    wrCalls,      \* the storage writes parse_page made, in order
    \* ---- preprocess_str, preprocess_col_names (SpecText)
    txtIn,        \* the string handed in
    txtStr,       \* preprocess_str of it, and preprocess_str of that result
    txtCol,       \* preprocess_col_names of it
    \* ---- BasicParser._get_from_single_section (SpecSection)
    secIn,        \* all_sections: for each <section> its <span> elements
    secOut,       \* result_sections as returned, and the add_error_data calls made
    \* ---- _create_trade_section (SpecPages)
    pgTables,     \* the pages of the block: the number of rows of each page's table
    pgCur,        \* the page the driver shows
    pgPc,         \* position in the loop: "read", "next", "done", "raised"
    pgData,       \* the local all_data: the rows appended so far
    pgWhy,        \* what set element to None
    \* ---- parse_sites with storage_type 'df' (SpecShared)
    shDoc,        \* the number of urls parse_url was applied to
    \* ---- parse_sites and the parsers (Spec)
    cfg,          \* fast and child_drivers as given to the ContractParser
    url0,         \* drivers[0].current_url
    parsers,      \* the ContractParser, its data_order and its data_customer
    stack,        \* the active parse_page calls, innermost last
    fresh,        \* the webdrivers made by create_silent_driver for this url
    poolOpen,     \* drivers[1:]: whether each is still open
    log           \* what happened for this url, in order

tblVars == <<tblPc, columns, data, body, tblErrs>>
stVars == <<sa, stCall>>
pidVars == <<pidKind, pidDocs, pidIds>>
dfVars == <<dfMain, dfPre, dfWrites>>
mVars == <<cfg, url0, parsers, stack, fresh, poolOpen, log>>
fdVars == <<fdLabels, fdId, fdCalls>>
wrVars == <<dbc, wrCalls>>
txtVars == <<txtIn, txtStr, txtCol>>
secVars == <<secIn, secOut>>
pgVars == <<pgTables, pgCur, pgPc, pgData, pgWhy>>
shVars == <<shDoc>>
unitVars == <<fdVars, wrVars, txtVars, secVars, pgVars, shVars>>

vars == <<tblVars, db, stVars, pidVars, dfVars, mVars, unitVars>>

\* ------------------------------------------------------------------------
\* Bounds of the model
\* ------------------------------------------------------------------------
MaxCols == 4        \* header cells of a table
MaxCells == 2       \* cells of one body row
MaxRows == 3        \* body rows of a table
MaxIdLen == 2       \* characters of the text of an identifier element
MaxMainWrites == 3  \* add_main_data calls on one in-memory adapter
MaxBlocks == 2      \* blocks of a contract card
MaxChildBlocks == 1 \* blocks of an order notice or a customer page
RecursionLimit == 2 \* nested parse_page calls Python allows (1000 in CPython)
MaxFrameCalls == 3  \* add_table and set_identifiers calls on one in-memory adapter
MaxOrdinal == 3     \* the block number n handed to add_table
MaxWrites == 2      \* blocks of one run whose result goes to the relational backend
MaxStatements == 2  \* rows of a table, or statements of one add_main_data call
MaxTextLen == 3     \* characters of a string handed to the text functions
MaxSections == 2    \* <section> elements of one key/value block
MaxSpans == 3       \* <span> elements of one <section>
MaxPages == 3       \* pages of a trade block
MaxPageRows == 2    \* rows of the table of one page
MaxUrls == 2        \* urls parse_sites goes through

\* ------------------------------------------------------------------------
\* Text: a string is a sequence of characters
\* ------------------------------------------------------------------------
Letters == {"a", "b", "x", "y", "z", "A", "B", "X", "Y"}
Digits == {"0", "1", "2", "3", "4", "5", "6", "7", "8", "9"}
\* the punctuation the class of preprocess_str lets through: `(-)` inside the
\* brackets is the range from ( to ), which holds these two characters only
Punct == {"+", ":", "/", "@", ".", ",", "(", ")"}
Space == " "
WhiteSpace == {" ", "\t", "\n"}

RECURSIVE CollapseRuns(_, _, _)
\* re.sub('\s+', rep, s): every maximal run of whitespace becomes `rep`
CollapseRuns(s, rep, inRun) ==
    IF s = <<>> THEN <<>>
    ELSE IF Head(s) \in WhiteSpace
         THEN (IF inRun THEN <<>> ELSE rep) \o CollapseRuns(Tail(s), rep, TRUE)
         ELSE <<Head(s)>> \o CollapseRuns(Tail(s), rep, FALSE)

RECURSIVE LStrip(_)
LStrip(s) == IF s # <<>> /\ Head(s) \in WhiteSpace THEN LStrip(Tail(s)) ELSE s

RECURSIVE RStrip(_)
RStrip(s) ==
    IF s # <<>> /\ s[Len(s)] \in WhiteSpace THEN RStrip(SubSeq(s, 1, Len(s) - 1)) ELSE s

\* str.strip()
Strip(s) == RStrip(LStrip(s))

PreprocessStrAllowed(c) == c \in Letters \cup Digits \cup Punct \cup {Space}

\* preprocess_str with the two substitutions in the other order
SubAfterCollapse(s) ==
    SelectSeq(Strip(CollapseRuns(s, <<Space>>, FALSE)), PreprocessStrAllowed)

\* preprocess_str(new_str)
preprocess_str(s) ==
    Strip(CollapseRuns(SelectSeq(s, PreprocessStrAllowed), <<Space>>, FALSE))

PreprocessColAllowed(c) == c \in Letters \cup Digits \cup {"_", Space}

Other == <<"o", "t", "h", "e", "r">>

\* preprocess_col_names(new_str): the strip comes after the substitution of
\* the whitespace runs
preprocess_col_names(s) ==
    LET new_str == Strip(CollapseRuns(SelectSeq(s, PreprocessColAllowed), <<"_">>, FALSE))
    IN  IF new_str # <<>> THEN new_str ELSE Other

RECURSIVE Join(_, _)
\* sep.join(parts)
Join(parts, sep) ==
    IF parts = <<>> THEN <<>>
    ELSE IF Len(parts) = 1 THEN parts[1]
    ELSE parts[1] \o sep \o Join(Tail(parts), sep)

\* `t in s` for strings
Contains(s, t) ==
    \E i \in 1..(Len(s) - Len(t) + 1) : SubSeq(s, i, i + Len(t) - 1) = t

\* [''] * k
Blanks(k) == [i \in 1..k |-> <<>>]

\* ------------------------------------------------------------------------
\* BasicParser._get_from_table and _get_from_inner_table
\* ------------------------------------------------------------------------
\* the frame `data`: none = TRUE is Python's None
NoData == [none |-> TRUE, rows |-> <<>>]
Frame(rows) == [none |-> FALSE, rows |-> rows]

ColAdditional == <<"a", "d", "d", "i", "t", "i", "o", "n", "a", "l">>
ColSpec == <<"s", "p", "e", "c">>

\* header cell texts as they stand in the markup: a name, and a decorative
\* cell whose text is dropped whole by preprocess_str
HeaderFirst == {<<"A">>, <<"#">>}
HeaderRest == <<"B">>
Headers ==
    {<<>>} \cup
    {[i \in 1..n |-> IF i = 1 THEN f ELSE HeaderRest] : n \in 1..MaxCols, f \in HeaderFirst}

CellTexts == {<<"x">>, <<"y", "!">>}
CellRows == UNION {[1..m -> CellTexts] : m \in 0..MaxCells}

\* a nested <table>: hasHead = FALSE is a nested table without <thead>
NoInner == [hasHead |-> FALSE, cols |-> <<>>, rows |-> <<>>]
InnerTables ==
    { [hasHead |-> TRUE, cols |-> <<<<"P">>, <<"Q">>>>, rows |-> <<<<<<"v">>>>>>],
      NoInner }

\* a body row: its <td> cells, or a nested table
BodyRows ==
    {[nested |-> FALSE, cells |-> c, inner |-> NoInner] : c \in CellRows} \cup
    {[nested |-> TRUE, cells |-> <<>>, inner |-> t] : t \in InnerTables}

Normalized(cells) == [i \in 1..Len(cells) |-> preprocess_str(cells[i])]

\* _get_from_inner_table: one row of the inner frame, padded on the left
InnerRow(cols, cells) ==
    IF Len(cells) # Len(cols)
    THEN Blanks(Len(cols) - Len(cells)) \o Normalized(cells)
    ELSE Normalized(cells)

\* _get_from_inner_table: None when the nested table has no <thead> (the
\* AttributeError is caught and logged there), else header + padded rows
get_from_inner_table(inner) ==
    IF ~inner.hasHead THEN [none |-> TRUE, cols |-> <<>>, rows |-> <<>>]
    ELSE [none |-> FALSE,
          cols |-> Normalized(inner.cols),
          rows |-> [i \in 1..Len(inner.rows) |->
                      InnerRow(Normalized(inner.cols), inner.rows[i])]]

\* np.vstack((columns, rows)) of the inner frame
Flatten(spec) == <<spec.cols>> \o spec.rows

\* the row appended for a body row of `cells` under `cols` when
\* delta = (len(columns) - 2) - len(cells) is 0, 1 or 2
PadLeftFirst(cols, newData, delta) ==
    IF cols[1] # <<>>
    THEN Blanks(delta) \o newData \o Blanks(2)
    ELSE newData \o Blanks(delta) \o Blanks(2)

PaddedRow(cols, newData, delta) ==
    IF cols[1] # <<>>
    THEN newData \o Blanks(delta) \o Blanks(2)
    ELSE Blanks(delta) \o newData \o Blanks(2)

\* data.iloc[-1, col] = value
SetLast(rows, col, value) ==
    [rows EXCEPT ![Len(rows)] = [@ EXCEPT ![col] = value]]

\* line 493: data.iloc[-1, -2] = "; ".join(new_data)
SetAdditional(rows, col, value) == SetLast(rows, col, value)

\* ------------------------------------------------------------------------
\* StorageAdapterSQLite: the relational backend
\* ------------------------------------------------------------------------
KindCustomer == <<"c", "u", "s", "t", "o", "m", "e", "r">>
KindOrder == <<"o", "r", "d", "e", "r">>
KindContract == <<"c", "o", "n", "t", "r", "a", "c", "t">>
Kinds == {KindCustomer, KindOrder, KindContract}

MainPrefix == <<"m", "a", "i", "n", "_">>
MainDefault == <<"m", "a", "i", "n">>
ErrsName == <<"e", "r", "r", "s">>

\* StorageAdapter.__init__ sets _data_id = 0: the integer, equal to no string
IdZero == <<"int 0">>

LowerChar(c) ==
    CASE c = "A" -> "a" [] c = "B" -> "b" [] c = "X" -> "x" [] c = "Y" -> "y"
      [] OTHER -> c
\* str.lower()
Lower(s) == [i \in 1..Len(s) |-> LowerChar(s[i])]

\* 'main_' + data_type.strip()
MainTableName(kind) == MainPrefix \o Strip(kind)

TableNames == {MainTableName(k) : k \in Kinds} \cup {ErrsName}

\* a table: its CREATE statement and its rows (a set: no order is relied on)
NoTable == [exists |-> FALSE, schema |-> "none", rows |-> {}]
EmptyDb == [t \in TableNames |-> NoTable]

\* StorageAdapterSQLite.__init__
NewAdapter == [data_id |-> IdZero, main_table |-> MainDefault, is_new |-> TRUE]

\* _check_table_existion: SELECT name FROM sqlite_master WHERE name = table
check_table_existion(d, table) == table \in DOMAIN d /\ d[table].exists

\* the comparison of the WHERE clause of _check_record_existion
SameIdAnyCase(rowId, newId) == Lower(rowId) = Lower(newId)

SameId(rowId, newId) == rowId = newId

\* _check_record_existion: SELECT id FROM table WHERE id = 'new_id'
check_record_existion(d, table, newId) ==
    \E row \in d[table].rows : SameId(row.id, newId)

\* _create_table: which CREATE TABLE statement runs
create_schema(table, mainTable) ==
    IF Lower(table) = mainTable THEN "main"
    ELSE IF Lower(table) = ErrsName THEN "errs"
    ELSE "child"

create_table(d, table, mainTable) ==
    [d EXCEPT ![table] = [exists |-> TRUE, schema |-> create_schema(table, mainTable),
                          rows |-> {}]]

\* INSERT INTO main_table (id) values (new_id): the primary key refuses a
\* second row with the same id, an INTEGER primary key refuses a text id
InsertRefused(d, table, newId) ==
    \/ d[table].schema # "main"
    \/ \E row \in d[table].rows : row.id = newId

InsertAlways(isNew) == TRUE

\* line 221: `if self.is_new:` guards the INSERT
InsertGuard(isNew) == isNew

\* set_identifiers with the assignment of _data_id moved above the two checks
BindBeforeCheck(d, a, newId, kind) ==
    [db |-> d, sa |-> [a EXCEPT !.data_id = newId], raised |-> TRUE]

\* set_identifiers(new_id, data_type): the adapter and database after the
\* call and whether it raised
set_identifiers(d, a, newId, kind) ==
    IF Len(kind) = 0 \/ newId = IdZero
    THEN [db |-> d, sa |-> a, raised |-> TRUE]
    ELSE LET table == MainTableName(kind)
             d1 == IF check_table_existion(d, table) THEN d
                   ELSE create_table(d, table, table)
             isNew == ~check_record_existion(d1, table, newId)
             a1 == [data_id |-> newId, main_table |-> table, is_new |-> isNew]
         IN  IF ~InsertGuard(isNew) THEN [db |-> d1, sa |-> a1, raised |-> FALSE]
             ELSE IF InsertRefused(d1, table, newId)
             THEN [db |-> d1, sa |-> a1, raised |-> TRUE]
             ELSE [db |-> [d1 EXCEPT ![table].rows = @ \cup {[id |-> newId]}],
                   sa |-> a1, raised |-> FALSE]

\* entity ids as the parsers resolve them: digits, or the fallback URL; two
\* URLs that differ in letter case only
StoreIds == {<<"7">>, <<"u", "/", "A">>, <<"u", "/", "a">>}
KindArgs == Kinds \cup {<<>>}

NoCall == [id |-> IdZero, kind |-> <<>>, before |-> {}, status |-> "none"]

\* ------------------------------------------------------------------------
\* _parse_id: CustomerParser, OrderParser, ContractParser
\* ------------------------------------------------------------------------
IsDigit(c) == c \in Digits

\* re.sub('[^0-9]', '', text)
DigitsOnly(text) == SelectSeq(text, IsDigit)

\* CustomerParser._parse_id (try / except around find_element_by_xpath) and
\* OrderParser._parse_id, ContractParser._parse_id (find_elements, len > 0):
\* the digits of the element's text when the element is there, else main_url
parse_id(kind, doc) ==
    IF doc.hasIdElement THEN DigitsOnly(doc.idText) ELSE doc.url

IdChars == {"1", "N"}
IdTexts == UNION {[1..n -> IdChars] : n \in 0..MaxIdLen}
UrlA == <<"u", "/", "A">>
UrlB == <<"u", "/", "b">>
DocsAt(url) == {[url |-> url, hasIdElement |-> h, idText |-> t] : h \in BOOLEAN, t \in IdTexts}

\* ------------------------------------------------------------------------
\* StorageAdapterDataframe: the in-memory backend
\* ------------------------------------------------------------------------
ColId == <<"i", "d">>

\* __init__: _data_labels['main'] = DataFrame([[self._data_id]], columns=['id'])
DfNewMain == [cols |-> <<ColId>>, vals |-> <<IdZero>>]

\* add_main_data(label, data), data a dict: one column label~key per key,
\* concatenated to the right of main
df_add_dict(frame, label, dict) ==
    [cols |-> frame.cols \o [i \in 1..Len(dict) |-> label \o <<"~">> \o dict[i].key],
     vals |-> frame.vals \o [i \in 1..Len(dict) |-> dict[i].value]]

\* add_main_data(label, data), data a scalar: main[label] = data
df_add_scalar(frame, label, value) ==
    IF \E i \in 1..Len(frame.cols) : frame.cols[i] = label
    THEN [frame EXCEPT !.vals = [i \in 1..Len(frame.vals) |->
                                   IF frame.cols[i] = label THEN value ELSE frame.vals[i]]]
    ELSE [cols |-> Append(frame.cols, label), vals |-> Append(frame.vals, value)]

\* x.astype(str)
ToStr(v) == IF v = IdZero THEN <<"0">> ELSE v

\* code points, in order, of the characters of column names
AsciiOrder ==
    <<"0", "1", "2", "3", "4", "5", "6", "7", "8", "9", ";", "A", "B", "C", "_",
      "a", "c", "d", "e", "i", "m", "o", "p", "q", "r", "s", "t", "u", "~">>
Rank(c) == CHOOSE i \in 1..Len(AsciiOrder) : AsciiOrder[i] = c

RECURSIVE LexLess(_, _)
\* s < t for strings
LexLess(s, t) ==
    IF t = <<>> THEN FALSE
    ELSE IF s = <<>> THEN TRUE
    ELSE IF Head(s) = Head(t) THEN LexLess(Tail(s), Tail(t))
    ELSE Rank(Head(s)) < Rank(Head(t))

RECURSIVE SetToSeq(_)
SetToSeq(S) ==
    IF S = {} THEN <<>> ELSE LET x == CHOOSE y \in S : TRUE IN <<x>> \o SetToSeq(S \ {x})

\* groupby(level=0, axis=1): the group keys, sorted
GroupNames(frame) == SortSeq(SetToSeq({frame.cols[i] : i \in 1..Len(frame.cols)}), LexLess)

\* set(x.astype(str)) of the row of one group
GroupValues(frame, name) ==
    {ToStr(frame.vals[i]) : i \in {j \in 1..Len(frame.cols) : frame.cols[j] = name}}

\* the orders in which iterating a set of strings can yield its elements
SetOrders(S) ==
    {p \in [1..Cardinality(S) -> S] : \A i, j \in 1..Cardinality(S) : i # j => p[i] # p[j]}

\* join_for_columns(x): ';'.join(set(x.astype(str)))
join_for_columns(S) == {Join(p, <<";">>) : p \in SetOrders(S)}

\* roll_data on one frame: the frames it can leave
roll_frame(frame) ==
    LET names == GroupNames(frame)
        all == UNION {join_for_columns(GroupValues(frame, names[i])) : i \in 1..Len(names)}
    IN  {[cols |-> names, vals |-> v] :
           v \in {w \in [1..Len(names) -> all] :
                    \A i \in 1..Len(names) :
                       w[i] \in join_for_columns(GroupValues(frame, names[i]))}}

DfLabels == {<<"C">>}
DfKeys == {<<"p">>, <<"q">>}
DfValues == {<<"1", "1", "1">>, <<"2", "2", "2">>}
\* the dicts _get_from_single_section returns: one or two sections
DfDicts ==
    {<<[key |-> k, value |-> v]>> : k \in DfKeys, v \in DfValues} \cup
    {<<[key |-> <<"p">>, value |-> v], [key |-> <<"q">>, value |-> v]>> : v \in DfValues}
\* the scalar _add_child_id adds
DfScalarLabel == <<"o", "r", "d", "e", "r", "_", "i", "d">>
DfScalars == {<<"3">>}

\* ------------------------------------------------------------------------
\* parse_sites, BasicParser and the Customer / Order / Contract parsers
\* ------------------------------------------------------------------------
Who == {"contract", "order", "customer"}
KindOf(who) ==
    CASE who = "contract" -> KindContract
      [] who = "order" -> KindOrder
      [] OTHER -> KindCustomer

\* the site: a contract card, its alternate view, the order notice it
\* links to and the customer page the notice links to
ContractUrl == <<"c", "?", "7">>
OrderUrl == <<"o", "?", "3">>
CustomerUrl == <<"u", "?", "5">>
\* a customer page whose identifier element holds no digit
CustomerUrlNoDigit == <<"u", "?", "-">>
CustomerUrls == {CustomerUrl, CustomerUrlNoDigit}
\* the prepared list of urls holds the card, any number of times
SeedUrls == {ContractUrl}
\* .../payment-info-and-target-of-order.html?reestrNumber={_id}
AltUrl(id) == <<"p", "?">> \o id

\* what the identifier element of the page at `url` holds
Page(url) ==
    [url |-> url,
     hasIdElement |-> url[Len(url)] \in Digits \cup {"-"},
     idText |-> <<"N", " ", url[Len(url)]>>]

\* a webdriver: drivers[0], one of drivers[1:], or one made on demand
NoDriver == [kind |-> "none", n |-> 0]
MainDriver == [kind |-> "main", n |-> 0]
PoolDriver(k) == [kind |-> "pool", n |-> k]
FreshDriver(k) == [kind |-> "fresh", n |-> k]

\* child_drivers: None or a list of webdrivers
NoDrivers == [none |-> TRUE, list |-> <<>>]
DriverList(l) == [none |-> FALSE, list |-> l]

\* the ways a parser is given its drivers: as parse_sites does (fast,
\* drivers[1:]) and by the constructor's defaults
Configs ==
    { [fast |-> TRUE, child_drivers |-> DriverList(<<PoolDriver(1), PoolDriver(2)>>)],
      [fast |-> FALSE, child_drivers |-> NoDrivers] }

NoParser ==
    [built |-> FALSE, main_url |-> <<>>, id |-> <<>>, st |-> NewAdapter,
     driver |-> NoDriver, fast |-> FALSE, child_drivers |-> NoDrivers, child |-> FALSE]
NoParsers == [w \in Who |-> NoParser]

\* `if self.fast and self._child_drivers`
UsesPool(p) == p.fast /\ ~p.child_drivers.none /\ p.child_drivers.list # <<>>

\* _get_child_driver: the driver handed out and the on-demand drivers after
get_child_driver(p, fr) ==
    IF UsesPool(p) THEN [driver |-> p.child_drivers.list[1], fresh |-> fr]
    ELSE [driver |-> FreshDriver(Len(fr) + 1), fresh |-> Append(fr, TRUE)]

\* child_driver.quit()
Quit(h, fr, pool) ==
    IF h.kind = "fresh" THEN [fresh |-> [fr EXCEPT ![h.n] = FALSE], pool |-> pool]
    ELSE IF h.kind = "pool" THEN [fresh |-> fr, pool |-> [pool EXCEPT ![h.n] = FALSE]]
    ELSE [fresh |-> fr, pool |-> pool]

\* _close_child_driver
close_child_driver(p, h, fr, pool) ==
    IF UsesPool(p) THEN [fresh |-> fr, pool |-> pool] ELSE Quit(h, fr, pool)

\* ---- what is recorded of one url's extraction
Ev(ev, who) ==
    [ev |-> ev, who |-> who, n |-> 0, url |-> <<>>, page |-> <<>>, func |-> "", id |-> <<>>]
EvBlock(who, i) == [Ev("block", who) EXCEPT !.n = i]
EvInsert(who, id) == [Ev("insert", who) EXCEPT !.id = id]
EvMain(who, label) == [Ev("main", who) EXCEPT !.func = label]
\* the parser's main_url where its id is asked for
get_main_url(p) == p.main_url
\* BasicParser.get_id
get_id(p) == p.id
\* add_main_data(label, child.get_id()) of _add_child_id and _parse_order:
\* StorageAdapterSQLite.add_main_data writes when len(data) != 0
EvChildId(who, label, child) ==
    IF Len(get_id(child)) # 0 THEN <<[EvMain(who, label) EXCEPT !.id = get_id(child)]>> ELSE <<>>
EvTable(who, i) == [Ev("table", who) EXCEPT !.n = i]
\* add_error_data(self.main_url, page, inspect.stack()[0][3], e) on who's storage
EvError(who, url, page, func) ==
    [Ev("error", who) EXCEPT !.url = url, !.page = page, !.func = func]
EvLink(who) == Ev("link", who)
\* roll_data recorded on the Contract's adapter, whoever rolls
RollOnContract(who) == Ev("roll", "contract")

EvRoll(who) == Ev("roll", who)
EvNav(url) == [Ev("nav", "contract") EXCEPT !.url = url]

BlockNo == <<"1", "2", "3", "4">>
\* the innerHTML of block i, as add_error_data is given it
Fragment(i) == <<"#", BlockNo[i]>>

InsertEvents(who, a) == IF a.is_new THEN <<EvInsert(who, a.data_id)>> ELSE <<>>

\* the blocks of a document, by what _add_data_to_dataframe gets from the
\* block's handler: a dict for the main record, a table, a raise; `general`
\* is the Order's _create_general_section, the first block of a notice
BlockKinds(who) ==
    IF who = "contract" THEN {"main", "table", "raise"} ELSE {"main", "raise"}
FirstKinds(who) ==
    IF who = "order" THEN BlockKinds(who) \cup {"general"} ELSE BlockKinds(who)
MaxBlocksOf(who) == IF who = "contract" THEN MaxBlocks ELSE MaxChildBlocks
BlockLists(who) ==
    UNION {{bl \in [1..n -> FirstKinds(who)] :
              \A i \in 2..n : bl[i] \in BlockKinds(who)} : n \in 0..MaxBlocksOf(who)}

\* a parse_page call: whose, where it stands, the blocks it found, and
\* whether the page is the one its caller has just been through
Frame0(who) == [who |-> who, phase |-> "enter", blocks |-> <<>>, i |-> 0, again |-> FALSE]
Top == stack[Len(stack)]
SetTop(f) == [stack EXCEPT ![Len(stack)] = f]
Finished(f) == f.phase \in {"returned", "raised"}
\* nested parse_page calls of the ContractParser
Depth == Cardinality({k \in 1..Len(stack) : stack[k].who = "contract"})

\* OrderParser.__init__ / CustomerParser.__init__ on `driver` at `url`:
\* BasicParser.__init__, then set_identifiers on a child storage
ChildCtor(who, d, url, driver, fastFlag) ==
    LET r == set_identifiers(d, NewAdapter, parse_id(KindOf(who), Page(url)), KindOf(who))
    IN  [raised |-> r.raised,
         db |-> r.db,
         parser |-> [built |-> TRUE, main_url |-> url, id |-> parse_id(KindOf(who), Page(url)),
                     st |-> r.sa, driver |-> driver, fast |-> fastFlag,
                     child_drivers |-> NoDrivers, child |-> FALSE],
         events |-> IF r.raised THEN <<>> ELSE InsertEvents(who, r.sa)]

\* the last lines of _parse_basics: len(self._child_drivers) > 1
HandOverDrivers(order, cd) ==
    IF Len(cd.list) > 1 THEN [order EXCEPT !.child_drivers = DriverList(<<cd.list[2]>>)]
    ELSE order

\* how far the construction of a child parser gets: the link to its page is
\* not found, fetching the page raises, the constructor raises, or it is built
ChildOutcomes == {"no link", "no page", "no parser", "built"}

\* ContractParser._parse_basics: the order parser (or none), the database,
\* the on-demand drivers and the events it leaves
parse_basics(d, cop, fr, curUrl, outcome) ==
    LET err == EvError("contract", cop.main_url, curUrl, "_parse_basics")
        got == get_child_driver(cop, fr)
        c == ChildCtor("order", d, OrderUrl, got.driver, cop.fast)
    IN  IF outcome = "no link"
        THEN [db |-> d, order |-> NoParser, fresh |-> fr, events |-> <<err>>]
        ELSE IF outcome # "built" \/ c.raised
        THEN [db |-> d, order |-> NoParser, fresh |-> got.fresh, events |-> <<err>>]
        ELSE IF cop.child_drivers.none
        THEN \* len(None) raises after data_order was assigned
             [db |-> c.db, order |-> c.parser, fresh |-> got.fresh,
              events |-> c.events \o <<err>>]
        ELSE [db |-> c.db, order |-> HandOverDrivers(c.parser, cop.child_drivers),
              fresh |-> got.fresh, events |-> c.events]

\* parsing.db as earlier runs can have left it: the placeholder rows of the
\* order and of the customer, each there or not
Recorded(d, who, url) ==
    set_identifiers(d, NewAdapter, parse_id(KindOf(who), Page(url)), KindOf(who)).db
PriorDbs ==
    {EmptyDb,
     Recorded(EmptyDb, "order", OrderUrl),
     Recorded(EmptyDb, "customer", CustomerUrl),
     Recorded(Recorded(EmptyDb, "order", OrderUrl), "customer", CustomerUrl)}

\* ------------------------------------------------------------------------
\* StorageAdapterDataframe: the frames of _data_labels
\* ------------------------------------------------------------------------
KeyMain == <<"m", "a", "i", "n">>
KeyErrors == <<"e", "r", "r", "o", "r", "s">>
\* the value of the name `id` in set_identifiers, which has no local of that
\* name: the builtin function
BuiltinId == <<"builtin function id">>
\* the errors frame is built without a column id
NoIdColumn == <<"no column id">>

\* __init__, lines 120-123: call 0 stores the frames main and errors
FdNewLabels ==
    (KeyMain :> [call |-> 0, id |-> IdZero]) @@ (KeyErrors :> [call |-> 0, id |-> NoIdColumn])

DigitChars == <<"0", "1", "2", "3", "4", "5", "6", "7", "8", "9">>
\* str(n) of a block number
StrOfOrdinal(n) == <<DigitChars[n + 1]>>

\* add_table, lines 125-128: the frame handed in by call number `call` gets
\* the column id and is stored under the label, or under the label followed
\* by str(n) when the label is a key already
fd_add_table(labels, dataId, label, n, call) ==
    LET new_label == IF label \in DOMAIN labels THEN label \o StrOfOrdinal(n) ELSE label
    IN  [k \in DOMAIN labels \cup {new_label} |->
            IF k = new_label THEN [call |-> call, id |-> dataId] ELSE labels[k]]

\* set_identifiers, lines 153-157: `id != 0` compares the builtin with 0 and
\* is true; the column id of main is set to the builtin
fd_set_identifiers(labels) == [labels EXCEPT ![KeyMain].id = BuiltinId]

\* what the calls are made with
FdTableLabels == {<<"A">>, <<"A", "2">>}
FdIds == {<<"7">>, <<"8">>}

\* ------------------------------------------------------------------------
\* StorageAdapterSQLite: the writes on db_connection
\* ------------------------------------------------------------------------
\* sqlite3.connect(path): no table yet, nothing committed, no open transaction
NewConnection == [tables |-> {}, committed |-> {}, pending |-> {}]

\* what one statement of call number `call` leaves in the database: a row of
\* a table, a column of the main table, the values of an UPDATE, a row of errs
Item(call, j, kind) == [call |-> call, j |-> j, kind |-> kind]

\* db_connection.commit(): the open transaction becomes persistent
commit(c) == [c EXCEPT !.committed = @ \cup c.pending, !.pending = {}]

\* an unquoted name SQLite takes in CREATE TABLE and ALTER TABLE
ValidName(name) == name[1] \notin Digits

\* the statements of a call that ran: all n of them, or those before the
\* one that failed
Ran(n, failAt) == IF failAt = 0 THEN 1..n ELSE 1..(failAt - 1)

\* _add_rows with a DataFrame, lines 297-306 and 311-314: one INSERT per row
\* in the connection's transaction; commit after the last; an exception is
\* printed, and neither commit nor rollback follows
add_rows_frame(c, call, n, failAt) ==
    LET c1 == [c EXCEPT !.pending = @ \cup {Item(call, j, "row") : j \in Ran(n, failAt)}]
    IN  IF failAt = 0 THEN commit(c1) ELSE c1

\* _add_rows with a dict, lines 288-295 and 311-314: _create_columns adds the
\* new columns (statements 1..n-1), one UPDATE sets the values (statement n).
\* sqlite3 opens no transaction for ALTER TABLE: a column added while none is
\* open is persistent at once, one added inside an open transaction is
\* persistent with its commit
add_rows_dict(c, call, n, failAt) ==
    LET cols == {Item(call, j, "column") : j \in Ran(n, failAt) \ {n}}
        c1 == IF c.pending = {} THEN [c EXCEPT !.committed = @ \cup cols]
              ELSE [c EXCEPT !.pending = @ \cup cols]
    IN  IF failAt = 0 THEN commit([c1 EXCEPT !.pending = @ \cup {Item(call, n, "value")}])
        ELSE c1

\* add_table, lines 183-188: the table's name from the label, CREATE TABLE
\* when it is not there (outside any try), then _add_rows
sql_add_table(c, call, label, n, failAt) ==
    LET table == preprocess_col_names(label) IN
    IF n = 0 THEN [conn |-> c, raised |-> FALSE]
    ELSE IF table \notin c.tables /\ ~ValidName(table) THEN [conn |-> c, raised |-> TRUE]
    ELSE [conn |-> add_rows_frame([c EXCEPT !.tables = @ \cup {table}], call, n, failAt),
          raised |-> FALSE]

\* add_main_data, lines 190-192
sql_add_main_data(c, call, n, failAt) ==
    IF n = 0 THEN c ELSE add_rows_dict(c, call, n, failAt)

\* add_error_data, lines 194-199: errs is created when missing, one row is
\* inserted and committed
sql_add_error_data(c, call) ==
    commit([c EXCEPT !.tables = @ \cup {ErrsName}, !.pending = @ \cup {Item(call, 0, "errs")}])

\* ------------------------------------------------------------------------
\* BasicParser: _get_from_href, _get_divided_data, _get_from_single_section
\* ------------------------------------------------------------------------
\* an element: its text, the <a> inside it ("none", "href", or "bare" for an
\* <a> without the attribute), the href, and the <div> elements inside it
Element(text, a, href, divs) == [text |-> text, a |-> a, href |-> href, divs |-> divs]
Plain(text) == Element(text, "none", <<>>, <<>>)

\* _get_from_href, lines 406-415: the href of the link, else the text through
\* preprocess_str; a link without href is a KeyError, caught and recorded
get_from_href(e) ==
    IF e.a = "none" THEN [text |-> preprocess_str(e.text), errs |-> <<>>]
    ELSE IF e.a = "href" THEN [text |-> e.href, errs |-> <<>>]
    ELSE [text |-> <<>>, errs |-> <<"_get_from_href">>]

\* _get_divided_data, lines 427-441: the parts of the <div> (and <span>)
\* elements inside joined by '; ', or the element itself when it has none
get_divided_data(e) ==
    IF Len(e.divs) = 0 THEN get_from_href(e)
    ELSE LET parts == [i \in 1..Len(e.divs) |-> get_from_href(e.divs[i])]
         IN  [text |-> Join([i \in 1..Len(parts) |-> parts[i].text], <<";", Space>>),
              errs |-> Join([i \in 1..Len(parts) |-> parts[i].errs], <<>>)]

\* result_sections = {}
EmptyDict == [k \in {} |-> <<>>]

\* result_sections[key] = value on a dict that keeps what it has
KeepFirst(dict, key, value) ==
    [k \in DOMAIN dict \cup {key} |-> IF k \in DOMAIN dict THEN dict[k] ELSE value]

\* result_sections[key] = value
SetItem(dict, key, value) ==
    [k \in DOMAIN dict \cup {key} |-> IF k = key THEN value ELSE dict[k]]

RECURSIVE get_from_single_section(_)
\* _get_from_single_section, lines 545-557: every <section> with exactly two
\* <span> elements sets result_sections[preprocess_str(first.text)] to the
\* divided data of the second
get_from_single_section(all_sections) ==
    IF all_sections = <<>> THEN [dict |-> EmptyDict, errs |-> <<>>]
    ELSE LET before == get_from_single_section(SubSeq(all_sections, 1, Len(all_sections) - 1))
             all_span == all_sections[Len(all_sections)]
         IN  IF Len(all_span) = 2
             THEN LET value == get_divided_data(all_span[2])
                  IN  [dict |-> SetItem(before.dict, preprocess_str(all_span[1].text), value.text),
                       errs |-> before.errs \o
                                [i \in 1..Len(value.errs) |->
                                    [func |-> value.errs[i], section |-> Len(all_sections)]]]
             ELSE before

\* the first <span> of a section: two labels, one of them twice with
\* different spacing
LabelSpans == {Plain(<<"N">>), Plain(<<"N", Space>>), Plain(<<"M">>)}
\* the second <span>: a text, a link, a link without href, two <div> parts
ValueSpans ==
    { Plain(<<"V">>),
      Element(<<"V">>, "href", <<"/", "v">>, <<>>),
      Element(<<"V">>, "bare", <<>>, <<>>),
      Element(<<"V", "W">>, "none", <<>>, <<Plain(<<"V">>), Plain(<<"W">>)>>) }
\* the <span> elements of one <section>: a label, a value, and further spans
SpanLists ==
    {<<l>> : l \in LabelSpans}
    \cup {<<l, v>> \o [i \in 1..k |-> Plain(<<"x">>)] :
              l \in LabelSpans, v \in ValueSpans, k \in 0..(MaxSpans - 2)}
SectionLists == UNION {[1..k -> SpanLists] : k \in 0..MaxSections}
NoSections == [done |-> FALSE, dict |-> EmptyDict, errs |-> <<>>]

\* ------------------------------------------------------------------------
\* _create_trade_section: the pages of a trade block
\* ------------------------------------------------------------------------
\* the frame _get_from_table gives for page p: its rows, each known by page
\* and number; no frame (None) for a page without rows
PageTable(tables, p) == [r \in 1..tables[p] |-> [page |-> p, row |-> r]]

\* all_data = table: the frame of the page in place of what was collected
ReplaceFrame(all_data, table) == table

\* all_data.append(table, sort=False); a None is left out
AppendFrame(all_data, table) == all_data \o table

\* the blocks a driver can be on: one to MaxPages pages
PageSets == UNION {[1..k -> 0..MaxPageRows] : k \in 1..MaxPages}
\* what the try of lines 776-779 can do on a page that has the next control
AdvanceOutcomes == {"ok", "locate", "click", "timeout"}

\* ------------------------------------------------------------------------
\* The text functions on strings of their own
\* ------------------------------------------------------------------------
\* a letter, a digit, punctuation of the class of preprocess_str, the hyphen,
\* a character of neither class, the underscore, and whitespace
TextChars == {"a", "7", "+", "-", "#", "_", " ", "\t"}
TextInputs == UNION {[1..k -> TextChars] : k \in 0..MaxTextLen}
NoColName == [done |-> FALSE, value |-> <<>>]

\* block names: one that is a table name, one that starts with a digit
WriteLabels == {<<"T">>, <<"2", " ", "T">>}

\* ------------------------------------------------------------------------
\* The parts a specification does not drive stay as constructed
\* ------------------------------------------------------------------------
TableIdle ==
    tblPc = "idle" /\ columns = <<>> /\ data = NoData /\ body = <<>> /\ tblErrs = <<>>

StoreIdle == sa = NewAdapter /\ stCall = NoCall

IdIdle == pidKind = <<>> /\ pidDocs = <<>> /\ pidIds = <<>>

DfIdle == dfMain = DfNewMain /\ dfPre = [valid |-> FALSE, frame |-> DfNewMain] /\ dfWrites = 0

MainIdle ==
    /\ cfg = [fast |-> FALSE, child_drivers |-> NoDrivers]
    /\ url0 = <<>>
    /\ parsers = NoParsers /\ stack = <<>> /\ fresh = <<>>
    /\ poolOpen = <<TRUE, TRUE>> /\ log = <<>>

FdIdle == fdLabels = FdNewLabels /\ fdId = IdZero /\ fdCalls = <<>>

WrIdle == dbc = NewConnection /\ wrCalls = <<>>

TxtIdle == txtIn = <<>> /\ txtStr = <<>> /\ txtCol = NoColName

SecIdle == secIn = <<>> /\ secOut = NoSections

PgIdle == pgTables = <<>> /\ pgCur = 0 /\ pgPc = "idle" /\ pgData = <<>> /\ pgWhy = ""

ShIdle == shDoc = 0

UnitIdle == FdIdle /\ WrIdle /\ TxtIdle /\ SecIdle /\ PgIdle /\ ShIdle

\* ------------------------------------------------------------------------
\* SpecTable: BasicParser._get_from_table on one table element
\* ------------------------------------------------------------------------
\* an except clause that lets the failure pass without an entry
pass_error(errs, func) == errs
\* the except clauses of the two table extractors:
\* self._storage.add_error_data(self.main_url, parser, inspect.stack()[0][3], e)
add_error_data(errs, func) == Append(errs, func)

TableInit ==
    /\ tblPc = "open"
    /\ columns \in Headers
    /\ data = NoData
    /\ body = <<>>
    /\ tblErrs = <<>>
    /\ db = EmptyDb
    /\ StoreIdle /\ IdIdle /\ DfIdle /\ MainIdle /\ UnitIdle

\* lines 458-468: find the table, read the header, create the empty frame
TblOpen ==
    /\ tblPc = "open"
    /\ \E hasTable \in BOOLEAN, hasHead \in BOOLEAN :
         IF ~hasTable
         THEN /\ tblPc' = "done"
              /\ UNCHANGED <<columns, data, tblErrs>>
         ELSE IF ~hasHead
         THEN \* parsed_table.find('thead') is None: the except clause logs it
              /\ tblPc' = "done"
              /\ tblErrs' = add_error_data(tblErrs, "_get_from_table")
              /\ UNCHANGED <<columns, data>>
         ELSE /\ tblPc' = "rows"
              /\ columns' = Normalized(columns) \o <<ColAdditional, ColSpec>>
              /\ data' = Frame(<<>>)
              /\ UNCHANGED tblErrs
    /\ UNCHANGED <<body, db, stVars, pidVars, unitVars, dfVars, mVars>>

\* lines 470-493: one iteration of the loop over parsed_rows
TblRow ==
    /\ tblPc = "rows"
    /\ Len(body) < MaxRows
    /\ \E row \in BodyRows :
         LET n == Len(columns)
             newData == Normalized(row.cells)
             delta == (n - 2) - Len(row.cells)
             addSpec == get_from_inner_table(row.inner)
         IN
         /\ body' = Append(body, row)
         /\ IF row.nested
            THEN IF addSpec.none
                 THEN \* the inner extractor logged its own failure
                      /\ tblErrs' = add_error_data(tblErrs, "_get_from_inner_table")
                      /\ UNCHANGED <<data, tblPc>>
                 ELSE IF data.rows = <<>>
                 THEN \* data.iloc[-1, -1] on an empty frame raises
                      /\ tblErrs' = add_error_data(tblErrs, "_get_from_table")
                      /\ tblPc' = "done"
                      /\ UNCHANGED data
                 ELSE /\ data' = Frame(SetLast(data.rows, n, Flatten(addSpec)))
                      /\ UNCHANGED <<tblErrs, tblPc>>
            ELSE IF delta = 0
                 THEN /\ data' = Frame(Append(data.rows, newData \o Blanks(2)))
                      /\ UNCHANGED <<tblErrs, tblPc>>
                 ELSE IF 0 < delta /\ delta < 3
                 THEN /\ data' = Frame(Append(data.rows, PaddedRow(columns, newData, delta)))
                      /\ UNCHANGED <<tblErrs, tblPc>>
                 ELSE IF data.rows = <<>>
                 THEN \* data.iloc[-1, -2] on an empty frame raises
                      /\ tblErrs' = add_error_data(tblErrs, "_get_from_table")
                      /\ tblPc' = "done"
                      /\ UNCHANGED data
                 ELSE /\ data' = Frame(SetAdditional(data.rows, n - 1,
                                                     Join(newData, <<";", " ">>)))
                      /\ UNCHANGED <<tblErrs, tblPc>>
    /\ UNCHANGED <<columns, db, stVars, pidVars, unitVars, dfVars, mVars>>

\* line 498: the loop is over, `finally: return data`
TblReturn ==
    /\ tblPc = "rows"
    /\ tblPc' = "done"
    /\ UNCHANGED <<columns, data, body, tblErrs, db, stVars, pidVars, unitVars, dfVars, mVars>>

TableNext == TblOpen \/ TblRow \/ TblReturn

SpecTable == TableInit /\ [][TableNext]_vars

\* ------------------------------------------------------------------------
\* Claims about the table extractor
\* ------------------------------------------------------------------------
HeaderWidth == Len(columns) - 2
RowDelta(row) == HeaderWidth - Len(row.cells)
IsPadded(row) == ~row.nested /\ RowDelta(row) \in 0..2
IsContinuation(row) == ~row.nested /\ RowDelta(row) >= 3
EmittedBy(rows) == {i \in 1..Len(rows) : IsPadded(rows[i])}

\* the row the width policy asks for, as the specification words it
PolicyRow(row) ==
    LET cells == Normalized(row.cells)
        d == RowDelta(row)
    IN  IF d = 0 THEN cells \o <<<<>>, <<>>>>
        ELSE IF columns[1] = <<>>
             THEN [i \in 1..d |-> <<>>] \o cells \o <<<<>>, <<>>>>
             ELSE cells \o [i \in 1..d |-> <<>>] \o <<<<>>, <<>>>>

\* C3: a body row with delta 0, 1 or 2 emits exactly one row of width n + 2:
\* its cells, padded with delta empty values on the left when the first
\* header column is blank and on the right otherwise, then two empty
\* synthetic values.
C3_WidthPolicy ==
    tblPc # "open" /\ ~data.none =>
      /\ Len(data.rows) = Cardinality(EmittedBy(body))
      /\ \A r \in 1..Len(data.rows) : Len(data.rows[r]) = HeaderWidth + 2
      /\ body # <<>> /\ IsPadded(body[Len(body)]) =>
            /\ data.rows # <<>>
            /\ data.rows[Len(data.rows)] = PolicyRow(body[Len(body)])

\* C3 witness: the row ["x"] under a two-column header with a decorative
\* first column has become ["", "x", "", ""].
C3_Witness ==
    /\ tblPc = "rows"
    /\ columns = <<<<>>, <<"B">>, ColAdditional, ColSpec>>
    /\ body = <<[nested |-> FALSE, cells |-> <<<<"x">>>>, inner |-> NoInner]>>
    /\ data = Frame(<< <<<<>>, <<"x">>, <<>>, <<>>>> >>)

\* C4 (as claimed): at the end of the extraction the cells of every
\* continuation row (delta >= 3), semicolon-joined, are present in the
\* `additional` column of some emitted row.
C4_ContinuationKept ==
    tblPc = "done" /\ ~data.none =>
      \A i \in 1..Len(body) :
        IsContinuation(body[i]) /\ body[i].cells # <<>> =>
          \E r \in 1..Len(data.rows) :
            Contains(data.rows[r][HeaderWidth + 1],
                     Join(Normalized(body[i].cells), <<";", " ">>))

\* the step that handles body row k: the rows before it are `body`
HandlesRow == tblPc = "rows" /\ body' # body
RowFails == HandlesRow /\ tblPc' = "done"
C24_Step ==
    /\ RowFails =>
         /\ tblErrs' = Append(tblErrs, "_get_from_table")
         /\ ~data'.none
         /\ data' = data
         /\ Len(data'.rows) = Cardinality(EmittedBy(body))
    /\ tblPc = "open" /\ tblPc' = "done" /\ tblErrs' = tblErrs => data'.none

\* C24: a failure while body row k is handled ends the extraction without a
\* raise, adds exactly one error entry of _get_from_table, and returns the
\* frame as the rows before k left it, one row per emitting body row before
\* k; an element without a table returns no frame (None) and no entry.
C24_FailureKeepsRows == [][C24_Step]_vars

\* the second body row fails: a continuation row or a nested table while no
\* row has been emitted yet, after a nested table that emitted nothing
C24_Witness ==
    /\ tblPc = "done" /\ Len(body) = 2
    /\ tblErrs # <<>> /\ tblErrs[Len(tblErrs)] = "_get_from_table"
    /\ data = Frame(<<>>)

\* the nested table's content as the sentence words it: the inner header,
\* then the inner rows, each padded on the left to the header's width
FlatAsWorded(inner) ==
    LET cols == Normalized(inner.cols)
    IN  <<cols>> \o [i \in 1..Len(inner.rows) |->
                      Blanks(Len(cols) - Len(inner.rows[i])) \o Normalized(inner.rows[i])]
C25_Step ==
    HandlesRow /\ body'[Len(body')].nested =>
      /\ ~data'.none /\ data'.rows # <<>>
      /\ Len(data'.rows) = Len(data.rows)
      /\ \A r \in 1..Len(data'.rows) : \A c \in 1..Len(data'.rows[r]) :
           IF r = Len(data'.rows) /\ c = Len(columns)
           THEN data'.rows[r][c] = FlatAsWorded(body'[Len(body')].inner)
           ELSE data'.rows[r][c] = data.rows[r][c]

\* C25 (as claimed): a body row with a nested table emits no row; it sets
\* the `spec` cell of the most recently emitted row to the nested table's
\* flattened content and changes neither the row count nor any other cell.
C25_NestedSetsSpec == [][C25_Step]_vars

\* ------------------------------------------------------------------------
\* SpecStore: adapters of one connection, bound by set_identifiers
\* ------------------------------------------------------------------------
StoreInit ==
    /\ db = EmptyDb
    /\ sa = NewAdapter
    /\ stCall = NoCall
    /\ TableIdle /\ IdIdle /\ DfIdle /\ MainIdle /\ UnitIdle

\* create_child_storage(): a fresh adapter on the same connection and cursor
CreateChildStorage ==
    /\ sa # NewAdapter
    /\ sa' = NewAdapter
    /\ stCall' = NoCall
    /\ UNCHANGED <<db, tblVars, pidVars, unitVars, dfVars, mVars>>

\* one call of set_identifiers on the adapter in hand
SetIdentifiers ==
    \E newId \in StoreIds, kind \in KindArgs :
      LET r == set_identifiers(db, sa, newId, kind) IN
      /\ db' = r.db
      /\ sa' = r.sa
      /\ stCall' = [id |-> newId, kind |-> kind,
                    before |-> IF Len(kind) = 0 THEN {}
                               ELSE db[MainTableName(kind)].rows,
                    status |-> IF r.raised THEN "raised" ELSE "returned"]
      /\ UNCHANGED <<tblVars, pidVars, unitVars, dfVars, mVars>>

StoreNext == CreateChildStorage \/ SetIdentifiers

SpecStore == StoreInit /\ [][StoreNext]_vars

\* ------------------------------------------------------------------------
\* Claims about set_identifiers on the relational backend
\* ------------------------------------------------------------------------
CallTable == db[MainTableName(stCall.kind)]
CallReturned == stCall.status = "returned"
HadExactId == \E row \in stCall.before : row.id = stCall.id
HadIdInOtherCase ==
    \E row \in stCall.before : row.id # stCall.id /\ Lower(row.id) = Lower(stCall.id)

\* C7: every set_identifiers(id, kind) with a kind returns; afterwards the
\* kind's table exists, holds what it held before plus exactly one row for
\* the id, and is_new is true iff no row with that id existed before the call.
C7_SetIdentifiers ==
    /\ stCall.status # "none" /\ stCall.kind # <<>> => CallReturned
    /\ CallReturned =>
         /\ CallTable.exists
         /\ sa.is_new = ~HadExactId
         /\ CallTable.rows = stCall.before \cup {[id |-> stCall.id]}
         /\ Cardinality({row \in CallTable.rows : row.id = stCall.id}) = 1
         /\ sa.data_id = stCall.id
    /\ \A t \in TableNames : \A r1, r2 \in db[t].rows : r1.id = r2.id => r1 = r2

\* C7 witness: a second binding of an id already in the kind's table returned
\* with is_new false.
C7_Witness ==
    /\ CallReturned /\ HadExactId /\ ~sa.is_new
    /\ Cardinality(CallTable.rows) = 2

\* C8 (as claimed): binding an id that differs only in letter case from a
\* persisted id of the kind yields is_new false and inserts no row.
C8_CaseInsensitive ==
    CallReturned /\ HadIdInOtherCase => ~sa.is_new /\ CallTable.rows = stCall.before

\* C8 (amended): the existence check is an exact, case-sensitive match: an id
\* that differs only in letter case from a persisted one, and is not itself
\* persisted, yields is_new true and gets its own row.
C8_CaseSensitive ==
    CallReturned /\ HadIdInOtherCase /\ ~HadExactId =>
      /\ sa.is_new
      /\ [id |-> stCall.id] \in CallTable.rows
      /\ [id |-> stCall.id] \notin stCall.before

\* C8 witness: u/a was bound while u/A was persisted, and is_new is true.
C8_Witness ==
    /\ CallReturned /\ HadIdInOtherCase /\ ~HadExactId
    /\ stCall.id = <<"u", "/", "a">> /\ sa.is_new

\* C13: set_identifiers without a kind raises to its caller and changes
\* nothing: the adapter's id, main table name and is_new are as before, no
\* table is created and no row is inserted.
C13_NoKindRaises ==
    [][stCall'.status # "none" /\ stCall'.kind = <<>> =>
         /\ stCall'.status = "raised"
         /\ sa' = sa
         /\ db' = db]_vars

\* C13 witness: an adapter bound to an entity was called without a kind; the
\* call raised, the adapter is still bound and the database holds the row.
C13_Witness ==
    /\ stCall.status = "raised" /\ stCall.kind = <<>>
    /\ sa # NewAdapter /\ ~sa.is_new /\ sa.data_id # stCall.id
    /\ db[sa.main_table].rows # {}

\* ------------------------------------------------------------------------
\* SpecId: the ids BasicParser.__init__ resolves for two documents
\* ------------------------------------------------------------------------
IdInit ==
    /\ pidKind \in Kinds
    /\ pidDocs \in {<<a, b>> : a \in DocsAt(UrlA), b \in DocsAt(UrlB)}
    /\ pidIds = <<>>
    /\ db = EmptyDb
    /\ TableIdle /\ StoreIdle /\ DfIdle /\ MainIdle /\ UnitIdle

\* BasicParser.__init__ on the next document: main_url = driver.current_url,
\* _id = self._parse_id()
ParseId ==
    /\ Len(pidIds) < Len(pidDocs)
    /\ pidIds' = Append(pidIds, parse_id(pidKind, pidDocs[Len(pidIds) + 1]))
    /\ UNCHANGED <<pidKind, pidDocs, unitVars, tblVars, db, stVars, dfVars, mVars>>

IdNext == ParseId

SpecId == IdInit /\ [][IdNext]_vars

Unparseable(doc) == ~doc.hasIdElement \/ DigitsOnly(doc.idText) = <<>>

\* C9 (as claimed): the resolved id is the digits of the identifier element,
\* or exactly the document's URL when the element is missing or yields no
\* digits; it is never empty, and two different documents without a
\* parseable identifier never share an id.
C9_IdOrUrl ==
    /\ \A i \in 1..Len(pidIds) :
         /\ pidIds[i] # <<>>
         /\ Unparseable(pidDocs[i]) => pidIds[i] = pidDocs[i].url
         /\ ~Unparseable(pidDocs[i]) => pidIds[i] = DigitsOnly(pidDocs[i].idText)
    /\ \A i, j \in 1..Len(pidIds) :
         i # j /\ Unparseable(pidDocs[i]) /\ Unparseable(pidDocs[j]) => pidIds[i] # pidIds[j]

\* ------------------------------------------------------------------------
\* SpecRoll: add_main_data and roll_data on one in-memory adapter
\* ------------------------------------------------------------------------
RollInit ==
    /\ dfMain = DfNewMain
    /\ dfPre = [valid |-> FALSE, frame |-> DfNewMain]
    /\ dfWrites = 0
    /\ db = EmptyDb
    /\ TableIdle /\ StoreIdle /\ IdIdle /\ MainIdle /\ UnitIdle

\* add_main_data(label, data): a block's dict or a child's id
DfAddMainData ==
    /\ dfWrites < MaxMainWrites
    /\ \/ \E label \in DfLabels, dict \in DfDicts :
            dfMain' = df_add_dict(dfMain, label, dict)
       \/ \E value \in DfScalars :
            dfMain' = df_add_scalar(dfMain, DfScalarLabel, value)
    /\ dfWrites' = dfWrites + 1
    /\ dfPre' = [valid |-> FALSE, frame |-> DfNewMain]
    /\ UNCHANGED <<tblVars, db, stVars, pidVars, unitVars, mVars>>

\* roll_data(): every group of equally named columns becomes one column
DfRollData ==
    /\ dfMain' \in roll_frame(dfMain)
    /\ dfPre' = [valid |-> TRUE, frame |-> dfMain]
    /\ UNCHANGED <<dfWrites, tblVars, db, stVars, pidVars, unitVars, mVars>>

RollNext == DfAddMainData \/ DfRollData

SpecRoll == RollInit /\ [][RollNext]_vars

RECURSIVE Distinct(_)
\* the values of a sequence, each once, in the order of first occurrence
Distinct(s) ==
    IF s = <<>> THEN <<>>
    ELSE LET front == Distinct(SubSeq(s, 1, Len(s) - 1))
             last == s[Len(s)]
         IN  IF \E i \in 1..Len(front) : front[i] = last THEN front ELSE Append(front, last)

\* the values of the columns called `name`, as text, in the order added
ValuesInOrder(frame, name) ==
    LET at == [i \in 1..Len(frame.cols) |-> [col |-> frame.cols[i], val |-> ToStr(frame.vals[i])]]
        IsNamed(c) == c.col = name
        named == SelectSeq(at, IsNamed)
    IN  [i \in 1..Len(named) |-> named[i].val]

\* C10 (as claimed): after roll_data the column names of the main record are
\* pairwise distinct and each column holds the distinct values of the
\* equally named columns that existed before the roll, each once, joined by
\* `;` in the order the columns were added.
C10_RollInOrder ==
    dfPre.valid =>
      /\ \A i, j \in 1..Len(dfMain.cols) : i # j => dfMain.cols[i] # dfMain.cols[j]
      /\ {dfMain.cols[i] : i \in 1..Len(dfMain.cols)} =
           {dfPre.frame.cols[i] : i \in 1..Len(dfPre.frame.cols)}
      /\ \A i \in 1..Len(dfMain.cols) :
           dfMain.vals[i] = Join(Distinct(ValuesInOrder(dfPre.frame, dfMain.cols[i])), <<";">>)

\* ------------------------------------------------------------------------
\* SpecFrames: add_table and set_identifiers on one in-memory adapter
\* ------------------------------------------------------------------------
FramesInit ==
    /\ fdLabels = FdNewLabels
    /\ fdId = IdZero
    /\ fdCalls = <<>>
    /\ db = EmptyDb
    /\ TableIdle /\ StoreIdle /\ IdIdle /\ DfIdle /\ MainIdle /\ WrIdle /\ TxtIdle /\ SecIdle /\ PgIdle /\ ShIdle

\* add_table(label, n, data) with a frame of its own
FdAddTable ==
    /\ Len(fdCalls) < MaxFrameCalls
    /\ \E label \in FdTableLabels, n \in 1..MaxOrdinal :
         /\ fdLabels' = fd_add_table(fdLabels, fdId, label, n, Len(fdCalls) + 1)
         /\ fdCalls' = Append(fdCalls, [op |-> "add_table", label |-> label, n |-> n, id |-> fdId])
    /\ UNCHANGED <<fdId, wrVars, txtVars, secVars, tblVars, db, stVars, pidVars, dfVars, mVars, pgVars, shVars>>

\* set_identifiers(new_id, kind)
FdSetIdentifiers ==
    /\ Len(fdCalls) < MaxFrameCalls
    /\ \E newId \in FdIds :
         /\ fdId' = newId
         /\ fdLabels' = fd_set_identifiers(fdLabels)
         /\ fdCalls' = Append(fdCalls, [op |-> "set_identifiers", label |-> <<>>, n |-> 0, id |-> newId])
    /\ UNCHANGED <<wrVars, txtVars, secVars, tblVars, db, stVars, pidVars, dfVars, mVars, pgVars, shVars>>

FramesNext == FdAddTable \/ FdSetIdentifiers

SpecFrames == FramesInit /\ [][FramesNext]_vars

\* the add_table calls made so far
FdAdds == {i \in 1..Len(fdCalls) : fdCalls[i].op = "add_table"}
FdDistinctPairs ==
    \A i, j \in FdAdds :
        i # j => <<fdCalls[i].label, fdCalls[i].n>> # <<fdCalls[j].label, fdCalls[j].n>>
FdFirstOfLabel(i) == \A j \in FdAdds : j < i => fdCalls[j].label # fdCalls[i].label
\* the key the claim gives the table of call i
FdClaimedKey(i) ==
    IF FdFirstOfLabel(i) THEN fdCalls[i].label
    ELSE fdCalls[i].label \o StrOfOrdinal(fdCalls[i].n)

\* C11 (as claimed): after add_table calls with pairwise distinct (label,
\* ordinal) pairs every table handed in is still in get_data(): the first
\* table of a label under the label, a recurrence under the label followed
\* by its ordinal, and no call has replaced the table of an earlier call.
C11_TablesKept ==
    FdDistinctPairs =>
      \A i \in FdAdds :
          /\ FdClaimedKey(i) \in DOMAIN fdLabels
          /\ fdLabels[FdClaimedKey(i)].call = i

\* the last set_identifiers call made so far, 0 when there is none
FdLastSet ==
    LET sets == {i \in 1..Len(fdCalls) : fdCalls[i].op = "set_identifiers"}
    IN  IF sets = {} THEN 0 ELSE CHOOSE i \in sets : \A j \in sets : j <= i

\* C12 (as claimed): after set_identifiers(new_id, kind) the column id of the
\* main record equals new_id, and every table added afterwards by add_table
\* carries new_id as the id of its owner.
C12_IdBound ==
    FdLastSet # 0 =>
      /\ fdLabels[KeyMain].id = fdCalls[FdLastSet].id
      /\ \A key \in DOMAIN fdLabels :
             fdLabels[key].call > FdLastSet => fdLabels[key].id = fdCalls[FdLastSet].id

\* ------------------------------------------------------------------------
\* SpecWrite: the blocks of parse_page that write to the relational backend
\* ------------------------------------------------------------------------
WriteInit ==
    /\ dbc = NewConnection
    /\ wrCalls = <<>>
    /\ db = EmptyDb
    /\ TableIdle /\ StoreIdle /\ IdIdle /\ DfIdle /\ MainIdle /\ FdIdle /\ TxtIdle /\ SecIdle /\ PgIdle /\ ShIdle

\* parse_page, lines 604-612, for a block whose extractor gave a DataFrame of
\* n rows: add_table; when it raises, add_error_data. failAt is the row whose
\* INSERT fails, 0 for none
WrTableBlock ==
    /\ Len(wrCalls) < MaxWrites
    /\ \E label \in WriteLabels, n \in 0..MaxStatements :
       \E failAt \in 0..n :
         LET call == Len(wrCalls) + 1
             r == sql_add_table(dbc, call, label, n, failAt)
         IN  /\ dbc' = IF r.raised THEN sql_add_error_data(r.conn, call) ELSE r.conn
             /\ wrCalls' = Append(wrCalls,
                    [op |-> "add_table", n |-> n,
                     ran |-> IF r.raised THEN {} ELSE Ran(n, failAt),
                     raised |-> r.raised])
    /\ UNCHANGED <<fdVars, txtVars, secVars, tblVars, db, stVars, pidVars, dfVars, mVars, pgVars, shVars>>

\* parse_page, lines 604-612, for a block whose extractor gave a dict:
\* add_main_data with n statements. failAt is the statement that fails
WrMainBlock ==
    /\ Len(wrCalls) < MaxWrites
    /\ \E n \in 0..MaxStatements :
       \E failAt \in 0..n :
         LET call == Len(wrCalls) + 1 IN
         /\ dbc' = sql_add_main_data(dbc, call, n, failAt)
         /\ wrCalls' = Append(wrCalls,
                [op |-> "add_main_data", n |-> n, ran |-> Ran(n, failAt), raised |-> FALSE])
    /\ UNCHANGED <<fdVars, txtVars, secVars, tblVars, db, stVars, pidVars, dfVars, mVars, pgVars, shVars>>

WriteNext == WrTableBlock \/ WrMainBlock

SpecWrite == WriteInit /\ [][WriteNext]_vars

\* what call i left in the database, its error row apart
Persisted(i) == {it \in dbc.committed : it.call = i /\ it.kind # "errs"}

\* C14 (as claimed): no add_table or add_main_data call raises, and of the
\* rows or columns of one call either all are persistent or none is, also
\* after later commits; a call that failed partway leaves none.
C14_AtomicWrites ==
    \A i \in 1..Len(wrCalls) :
        /\ ~wrCalls[i].raised
        /\ Cardinality(Persisted(i)) \in {0, wrCalls[i].n}
        /\ wrCalls[i].ran # 1..wrCalls[i].n => Persisted(i) = {}

\* call i lost something: it raised, or a statement of it did not run
Lost(i) == wrCalls[i].raised \/ wrCalls[i].ran # 1..wrCalls[i].n

\* C15 (as claimed): every loss has its row in the error table: for each
\* block result or backend write that was dropped there is a persistent row
\* of errs for it.
C15_EveryLossLogged ==
    \A i \in 1..Len(wrCalls) : Lost(i) => Item(i, 0, "errs") \in dbc.committed

\* ------------------------------------------------------------------------
\* SpecText: preprocess_str and preprocess_col_names on one string
\* ------------------------------------------------------------------------
TextInit ==
    /\ txtIn \in TextInputs
    /\ txtStr = <<>>
    /\ txtCol = NoColName
    /\ db = EmptyDb
    /\ TableIdle /\ StoreIdle /\ IdIdle /\ DfIdle /\ MainIdle /\ FdIdle /\ WrIdle /\ SecIdle /\ PgIdle /\ ShIdle

\* preprocess_str(s), then preprocess_str of what it returned
PreprocessStr ==
    /\ Len(txtStr) < 2
    /\ txtStr' = Append(txtStr, preprocess_str(IF txtStr = <<>> THEN txtIn ELSE txtStr[1]))
    /\ UNCHANGED <<txtIn, txtCol, secVars, fdVars, wrVars, tblVars, db, stVars, pidVars, dfVars, mVars, pgVars, shVars>>

\* preprocess_col_names(s)
PreprocessColNames ==
    /\ ~txtCol.done
    /\ txtCol' = [done |-> TRUE, value |-> preprocess_col_names(txtIn)]
    /\ UNCHANGED <<txtIn, txtStr, secVars, fdVars, wrVars, tblVars, db, stVars, pidVars, dfVars, mVars, pgVars, shVars>>

TextNext == PreprocessStr \/ PreprocessColNames

SpecText == TextInit /\ [][TextNext]_vars

IsWordChar(c) == c \in Letters \cup Digits \cup {"_"}
KeptForName(c) == IsWordChar(c) \/ c \in WhiteSpace
\* the identifier the claim describes: characters outside letters, digits,
\* underscore and whitespace dropped, the ends trimmed, every whitespace run
\* one underscore
TrimmedName == CollapseRuns(Strip(SelectSeq(txtIn, KeptForName)), <<"_">>, FALSE)

\* C16 (as claimed): preprocess_col_names returns a non-empty string of
\* letters, digits and underscores only, with each whitespace run mapped to
\* one underscore and the ends trimmed, and "other" when nothing else remains.
C16_ColNames ==
    txtCol.done =>
      /\ txtCol.value # <<>>
      /\ \A i \in 1..Len(txtCol.value) : IsWordChar(txtCol.value[i])
      /\ txtCol.value = IF TrimmedName = <<>> THEN Other ELSE TrimmedName

\* C17: preprocess_str is idempotent.
C17_Idempotent == Len(txtStr) = 2 => txtStr[2] = txtStr[1]

\* C17 witness: preprocess_str was applied twice to a string the first
\* application changed and did not empty.
C17_Witness ==
    /\ Len(txtStr) = 2
    /\ txtStr[1] # txtIn /\ txtStr[1] # <<>>
    /\ Contains(txtIn, <<"#">>) /\ Contains(txtIn, <<Space>>)

IsSpace(c) == c = Space
NotSpace(c) == c # Space
ClaimedKept(c) == c \in Letters \cup Digits \cup Punct \cup {"-"}

\* C18 (as claimed): preprocess_str keeps, in order, every letter, digit and
\* occurrence of + : / @ . , ( ) and -, removes every other character that
\* is not a space, and returns no leading, trailing or doubled space.
C18_KeepsAllowed ==
    Len(txtStr) >= 1 =>
      LET r == txtStr[1] IN
      /\ SelectSeq(r, NotSpace) = SelectSeq(txtIn, ClaimedKept)
      /\ r = <<>> \/ (r[1] # Space /\ r[Len(r)] # Space)
      /\ \A i \in 1..(Len(r) - 1) : ~(r[i] = Space /\ r[i + 1] = Space)

\* ------------------------------------------------------------------------
\* SpecSection: _get_from_single_section on one key/value block
\* ------------------------------------------------------------------------
SectionInit ==
    /\ secIn \in SectionLists
    /\ secOut = NoSections
    /\ db = EmptyDb
    /\ TableIdle /\ StoreIdle /\ IdIdle /\ DfIdle /\ MainIdle /\ FdIdle /\ WrIdle /\ TxtIdle /\ PgIdle /\ ShIdle

\* the call of _get_from_single_section
GetFromSingleSection ==
    /\ ~secOut.done
    /\ LET r == get_from_single_section(secIn)
       IN  secOut' = [done |-> TRUE, dict |-> r.dict, errs |-> r.errs]
    /\ UNCHANGED <<secIn, fdVars, wrVars, txtVars, tblVars, db, stVars, pidVars, dfVars, mVars, pgVars, shVars>>

SectionNext == GetFromSingleSection

SpecSection == SectionInit /\ [][SectionNext]_vars

\* the sections with exactly two spans, and what each contributes
TwoPart == {i \in 1..Len(secIn) : Len(secIn[i]) = 2}
LabelOf(i) == preprocess_str(secIn[i][1].text)
ValueOf(i) == get_divided_data(secIn[i][2]).text
NoErrorForSkipped == \A k \in 1..Len(secOut.errs) : secOut.errs[k].section \in TwoPart

\* C19 (as claimed): the mapping has exactly one entry per section with
\* exactly two spans, its normalized label mapped to the divided data of its
\* second span, and none for any other section; skipped sections add no
\* error entry.
C19_OneEntryPerSection ==
    secOut.done =>
      /\ Cardinality(DOMAIN secOut.dict) = Cardinality(TwoPart)
      /\ \A i \in TwoPart : LabelOf(i) \in DOMAIN secOut.dict /\ secOut.dict[LabelOf(i)] = ValueOf(i)
      /\ NoErrorForSkipped

\* C19 (amended): the keys of the mapping are the normalized labels of the
\* sections with exactly two spans; each key maps to the divided data of the
\* last such section with that label; other sections contribute nothing and
\* add no error entry.
C19_LastPerLabel ==
    secOut.done =>
      /\ DOMAIN secOut.dict = {LabelOf(i) : i \in TwoPart}
      /\ \A i \in TwoPart :
             (\A j \in TwoPart : j > i => LabelOf(j) # LabelOf(i))
                 => secOut.dict[LabelOf(i)] = ValueOf(i)
      /\ NoErrorForSkipped

\* C19 witness: two sections of two spans with the same normalized label and
\* different values were read, and the mapping holds the second value only.
C19_Witness ==
    /\ secOut.done /\ Len(secIn) = 2 /\ TwoPart = {1, 2}
    /\ LabelOf(1) = LabelOf(2) /\ ValueOf(1) # ValueOf(2)
    /\ secIn[1][1] # secIn[2][1]
    /\ DOMAIN secOut.dict = {LabelOf(2)} /\ secOut.dict[LabelOf(2)] = ValueOf(2)

\* ------------------------------------------------------------------------
\* SpecPages: the loop of _create_trade_section on one trade block
\* ------------------------------------------------------------------------
PagesInit ==
    /\ pgTables \in PageSets
    /\ pgCur = 1
    /\ pgPc = "read"
    /\ pgData = <<>>
    /\ pgWhy = ""
    /\ db = EmptyDb
    /\ TableIdle /\ StoreIdle /\ IdIdle /\ DfIdle /\ MainIdle
    /\ FdIdle /\ WrIdle /\ TxtIdle /\ SecIdle /\ ShIdle

\* lines 773-775: find the block on the page shown (outside the try), read
\* its table and append it to all_data
PgRead ==
    /\ pgPc = "read"
    /\ \E blockFound \in BOOLEAN :
         IF blockFound
         THEN /\ pgData' = AppendFrame(pgData, PageTable(pgTables, pgCur))
              /\ pgPc' = "next"
              /\ UNCHANGED pgWhy
         ELSE \* NoSuchElementException leaves _create_trade_section
              /\ pgPc' = "raised"
              /\ pgWhy' = "block"
              /\ UNCHANGED pgData
    /\ UNCHANGED <<pgTables, pgCur, fdVars, wrVars, txtVars, secVars, shVars,
                   tblVars, db, stVars, pidVars, dfVars, mVars>>

\* lines 776-781: find the next control, click it, wait for it to go stale;
\* any exception sets element to None and ends the loop
PgAdvance ==
    /\ pgPc = "next"
    /\ IF pgCur = Len(pgTables)
       THEN \* the last page has no next control
            /\ pgPc' = "done"
            /\ pgWhy' = "no control"
            /\ UNCHANGED pgCur
       ELSE \E outcome \in AdvanceOutcomes :
              IF outcome = "ok"
              THEN /\ pgCur' = pgCur + 1
                   /\ pgPc' = "read"
                   /\ UNCHANGED pgWhy
              ELSE /\ pgPc' = "done"
                   /\ pgWhy' = outcome
                   /\ UNCHANGED pgCur
    /\ UNCHANGED <<pgTables, pgData, fdVars, wrVars, txtVars, secVars, shVars,
                   tblVars, db, stVars, pidVars, dfVars, mVars>>

PagesNext == PgRead \/ PgAdvance

SpecPages == PagesInit /\ [][PagesNext]_vars

\* an iteration that is enabled is taken: the loop runs in one thread, and
\* every call in it returns or raises (the wait within its 15 seconds)
SpecPagesFair == SpecPages /\ WF_vars(PagesNext)

RECURSIVE PagesUpTo(_)
\* the tables of pages 1..p, one after the other
PagesUpTo(p) == IF p = 0 THEN <<>> ELSE PagesUpTo(p - 1) \o PageTable(pgTables, p)

\* C21: the loop ends for every number of pages; it returns the tables of
\* the pages read, each once and in page order: all k of them when every
\* next control worked, else those up to the first page where locating,
\* invoking or waiting on the control failed.
C21_PagesOnceInOrder ==
    /\ [](pgPc = "done" =>
            /\ pgData = PagesUpTo(pgCur)
            /\ pgWhy = "no control" => pgCur = Len(pgTables))
    /\ <>(pgPc \in {"done", "raised"})

\* C21 witness: a block of three pages with rows on each was read to the end.
C21_Witness ==
    /\ pgPc = "done" /\ pgWhy = "no control" /\ Len(pgTables) >= 3
    /\ \A p \in 1..Len(pgTables) : pgTables[p] > 0
    /\ Len(pgData) > Len(pgTables)

\* ------------------------------------------------------------------------
\* SpecShared: parse_sites with storage_type 'df': one in-memory adapter
\* handed to the parser of every url
\* ------------------------------------------------------------------------
\* the dicts the blocks of document n yield: every value names its document
ShValue(n) == <<"d">> \o StrOfOrdinal(n)
ShDicts(n) ==
    {<<[key |-> k, value |-> ShValue(n)]>> : k \in DfKeys} \cup
    {<<[key |-> <<"p">>, value |-> ShValue(n)], [key |-> <<"q">>, value |-> ShValue(n)]>>}

\* storage = StorageAdapterDataframe(), once, before the first url
SharedInit ==
    /\ dfMain = DfNewMain
    /\ dfPre = [valid |-> FALSE, frame |-> DfNewMain]
    /\ dfWrites = 0
    /\ shDoc = 0
    /\ db = EmptyDb
    /\ TableIdle /\ StoreIdle /\ IdIdle /\ MainIdle
    /\ FdIdle /\ WrIdle /\ TxtIdle /\ SecIdle /\ PgIdle

\* parse_url: parser_name(drivers[0], storage=storage, ...), whose
\* constructor calls storage.set_identifiers(self._id, kind) on the adapter
\* the documents before it used
ShConstruct ==
    /\ shDoc < MaxUrls
    /\ shDoc = 0 \/ dfPre.valid
    /\ shDoc' = shDoc + 1
    /\ dfMain' = df_add_scalar(dfMain, ColId, BuiltinId)
    /\ dfPre' = [valid |-> FALSE, frame |-> DfNewMain]
    /\ dfWrites' = 0
    /\ UNCHANGED <<tblVars, db, stVars, pidVars, mVars, fdVars, wrVars, txtVars, secVars, pgVars>>

\* parse_page: one block's dict through add_main_data
ShAddMainData ==
    /\ shDoc > 0 /\ ~dfPre.valid
    /\ dfWrites < MaxMainWrites
    /\ \E label \in DfLabels, dict \in ShDicts(shDoc) :
         dfMain' = df_add_dict(dfMain, label, dict)
    /\ dfWrites' = dfWrites + 1
    /\ UNCHANGED <<dfPre, shDoc, tblVars, db, stVars, pidVars, mVars,
                   fdVars, wrVars, txtVars, secVars, pgVars>>

\* parse_page's roll_data, after which from_parser_to_dict reads get_data()
ShRollData ==
    /\ shDoc > 0 /\ ~dfPre.valid
    /\ dfMain' \in roll_frame(dfMain)
    /\ dfPre' = [valid |-> TRUE, frame |-> dfMain]
    /\ UNCHANGED <<dfWrites, shDoc, tblVars, db, stVars, pidVars, mVars,
                   fdVars, wrVars, txtVars, secVars, pgVars>>

SharedNext == ShConstruct \/ ShAddMainData \/ ShRollData

SpecShared == SharedInit /\ [][SharedNext]_vars

\* C27 (as claimed): get_data() after the extraction of document N holds, in
\* the main record, only values produced from document N: no column carries
\* a value of an earlier document, alone or merged into N's by roll_data.
C27_NothingCarriedOver ==
    dfPre.valid =>
      \A i \in 1..Len(dfMain.cols) :
        dfMain.cols[i] # ColId => dfMain.vals[i] = ShValue(shDoc)

\* ------------------------------------------------------------------------
\* Spec: parse_url of parse_sites with ContractParser on the sql backend
\* ------------------------------------------------------------------------
Init ==
    /\ cfg \in Configs
    /\ url0 = <<>>
    /\ parsers = NoParsers /\ stack = <<>> /\ fresh = <<>>
    /\ poolOpen = <<TRUE, TRUE>> /\ log = <<>>
    /\ db \in PriorDbs
    /\ TableIdle /\ StoreIdle /\ IdIdle /\ DfIdle /\ UnitIdle

\* parse_url: drivers[0].get(url), then ContractParser(drivers[0], storage,
\* fast, child_drivers): BasicParser.__init__, set_identifiers, _parse_basics
ParseUrl ==
    /\ stack = <<>>
    /\ \E u \in SeedUrls, getOk \in BOOLEAN, outcome \in ChildOutcomes :
         LET id == parse_id(KindContract, Page(u))
             r == set_identifiers(db, parsers["contract"].st, id, KindContract)
             cop == [built |-> TRUE, main_url |-> u, id |-> id, st |-> r.sa,
                     driver |-> MainDriver, fast |-> cfg.fast,
                     child_drivers |-> cfg.child_drivers, child |-> FALSE]
             b == parse_basics(r.db, cop, <<>>, u, outcome)
         IN  IF ~getOk \/ r.raised
             THEN \* the except clause of parse_url prints the error
                  /\ url0' = IF getOk THEN u ELSE url0
                  /\ parsers' = NoParsers
                  /\ log' = <<>>
                  /\ fresh' = <<>>
                  /\ UNCHANGED <<stack, db>>
             ELSE /\ url0' = u
                  /\ db' = b.db
                  /\ parsers' = [NoParsers EXCEPT
                                   !["contract"] = [cop EXCEPT !.child = b.order.built],
                                   !["order"] = b.order]
                  /\ fresh' = b.fresh
                  /\ log' = InsertEvents("contract", r.sa) \o b.events
                  /\ stack' = <<Frame0("contract")>>
    /\ UNCHANGED <<cfg, poolOpen, tblVars, stVars, pidVars, unitVars, dfVars>>

\* parse_page, lines 600-602: the is_new guard, then the blocks of the page
ParsePageEnter ==
    /\ stack # <<>>
    /\ Top.phase = "enter"
    /\ IF ~parsers[Top.who].st.is_new
       THEN stack' = SetTop([Top EXCEPT !.phase = "returned"])
       ELSE \E findOk \in BOOLEAN,
               bl \in IF Top.again THEN {Top.blocks} ELSE BlockLists(Top.who) :
              IF findOk
              THEN stack' = SetTop([Top EXCEPT !.phase = "blocks", !.blocks = bl, !.i = 0])
              ELSE \* find_elements_by_xpath raises, outside the loop's try
                   stack' = SetTop([Top EXCEPT !.phase = "raised", !.blocks = <<>>])
    /\ UNCHANGED <<cfg, url0, parsers, fresh, poolOpen, log, db,
                   tblVars, stVars, pidVars, unitVars, dfVars>>

\* parse_page, lines 604-612: one block through _add_data_to_dataframe;
\* a `general` block is OrderParser._create_general_section, which runs
\* _create_customer_section up to cp.parse_page()
DispatchBlock ==
    /\ stack # <<>>
    /\ Top.phase = "blocks"
    /\ Top.i < Len(Top.blocks)
    /\ LET w == Top.who
           p == parsers[w]
           i == Top.i + 1
           kind == Top.blocks[i]
           next == SetTop([Top EXCEPT !.i = i])
           caught == EvError(w, p.main_url, Fragment(i), "parse_page")
       IN
       IF kind # "general"
       THEN /\ log' = log \o <<EvBlock(w, i)>> \o
                      (CASE kind = "main" -> <<EvMain(w, "block")>>
                         [] kind = "table" -> <<EvTable(w, i)>>
                         [] kind = "raise" -> <<caught>>
                         [] OTHER -> <<>>)
            /\ stack' = next
            /\ UNCHANGED <<parsers, fresh, poolOpen, db>>
       ELSE \E outcome \in ChildOutcomes, link \in CustomerUrls :
              LET got == get_child_driver(p, fresh)
                  c == ChildCtor("customer", db, link, got.driver, p.fast)
                  closed == close_child_driver(p, got.driver, got.fresh, poolOpen)
                  failed == EvError(w, p.main_url, p.main_url, "_create_customer_section")
              IN
              IF outcome = "no link"
              THEN \* new_values['...'] raises KeyError
                   /\ log' = log \o <<EvBlock(w, i), caught>>
                   /\ stack' = next
                   /\ UNCHANGED <<parsers, fresh, poolOpen, db>>
              ELSE IF outcome # "built" \/ c.raised
              THEN \* caught in _create_customer_section; cp stays None
                   /\ log' = log \o <<EvBlock(w, i), failed, EvMain(w, "block")>>
                   /\ parsers' = [parsers EXCEPT ![w].child = FALSE]
                   /\ fresh' = closed.fresh
                   /\ poolOpen' = closed.pool
                   /\ stack' = next
                   /\ UNCHANGED db
              ELSE /\ log' = log \o <<EvBlock(w, i)>> \o c.events
                   /\ parsers' = [parsers EXCEPT !["customer"] = c.parser]
                   /\ fresh' = got.fresh
                   /\ db' = c.db
                   /\ stack' = Append(SetTop([Top EXCEPT !.phase = "wait"]),
                                      Frame0("customer"))
                   /\ UNCHANGED poolOpen
    /\ UNCHANGED <<cfg, url0, tblVars, stVars, pidVars, unitVars, dfVars>>

\* parse_page, line 613: _add_child_id of the three parsers, and
\* ContractParser._parse_order up to the parse_page it calls
LinkChildren ==
    /\ stack # <<>>
    /\ Top.phase = "blocks"
    /\ Top.i = Len(Top.blocks)
    /\ LET w == Top.who
           p == parsers[w]
           roll == SetTop([Top EXCEPT !.phase = "roll"])
           wait == SetTop([Top EXCEPT !.phase = "wait"])
           caught == EvError(w, p.main_url, url0, "_parse_order")
       IN
       IF w = "customer"
       THEN /\ log' = Append(log, EvLink(w))
            /\ stack' = roll
            /\ UNCHANGED url0
       ELSE IF w = "order"
       THEN /\ log' = log \o <<EvLink(w)>> \o
                      (IF p.child THEN EvChildId(w, "customer_id", parsers["customer"]) ELSE <<>>)
            /\ stack' = roll
            /\ UNCHANGED url0
       ELSE IF url0 # p.main_url
       THEN /\ log' = Append(log, EvLink(w))
            /\ stack' = roll
            /\ UNCHANGED url0
       ELSE IF p.child
       THEN /\ log' = Append(log, EvLink(w))
            /\ stack' = Append(wait, Frame0("order"))
            /\ UNCHANGED url0
       ELSE \E nav \in {"ok", "back", "raise"} :
              IF nav = "raise"
              THEN /\ log' = log \o <<EvLink(w), EvNav(AltUrl(p.id)), caught>>
                   /\ stack' = roll
                   /\ UNCHANGED url0
              ELSE /\ url0' = IF nav = "ok" THEN AltUrl(p.id) ELSE p.main_url
                   /\ IF Depth >= RecursionLimit
                      THEN \* self.parse_page() raises RecursionError
                           /\ log' = log \o <<EvLink(w), EvNav(AltUrl(p.id)),
                                              EvError(w, p.main_url, url0', "_parse_order")>>
                           /\ stack' = roll
                      ELSE /\ log' = log \o <<EvLink(w), EvNav(AltUrl(p.id))>>
                           /\ stack' = Append(wait,
                                 IF nav = "back"
                                 THEN [Frame0("contract") EXCEPT !.blocks = Top.blocks,
                                                                 !.again = TRUE]
                                 ELSE Frame0("contract"))
    /\ UNCHANGED <<cfg, parsers, fresh, poolOpen, db,
                   tblVars, stVars, pidVars, unitVars, dfVars>>

\* parse_page, line 614: self._storage.roll_data(), a no-op on this backend
RollData ==
    /\ stack # <<>>
    /\ Top.phase = "roll"
    /\ log' = Append(log, EvRoll(Top.who))
    /\ stack' = SetTop([Top EXCEPT !.phase = "returned"])
    /\ UNCHANGED <<cfg, url0, parsers, fresh, poolOpen, db,
                   tblVars, stVars, pidVars, unitVars, dfVars>>

\* a parse_page call is over: what its caller does with the return or the
\* raise (parse_url, _create_customer_section, _parse_order)
Resume ==
    /\ stack # <<>>
    /\ Finished(Top)
    /\ LET done == Top
           rest == SubSeq(stack, 1, Len(stack) - 1)
       IN
       IF rest = <<>>
       THEN \* back in parse_url, which prints what parse_page raised
            /\ stack' = <<>>
            /\ UNCHANGED <<parsers, fresh, poolOpen, log>>
       ELSE LET caller == rest[Len(rest)]
                w == caller.who
                p == parsers[w]
                closed == close_child_driver(p, parsers[done.who].driver, fresh, poolOpen)
            IN
            /\ IF w = "order"
               THEN \* _create_customer_section: except, finally, return cp;
                    \* then the block's dict goes to add_main_data
                    /\ log' = log \o
                         (IF done.phase = "raised"
                          THEN <<EvError(w, p.main_url, p.main_url, "_create_customer_section")>>
                          ELSE <<>>) \o <<EvMain(w, "block")>>
                    /\ parsers' = [parsers EXCEPT ![w].child = TRUE]
                    /\ fresh' = closed.fresh
                    /\ poolOpen' = closed.pool
                    /\ stack' = [rest EXCEPT ![Len(rest)] = [caller EXCEPT !.phase = "blocks", !.i = caller.i + 1]]
               ELSE IF done.who = "order"
               THEN \* _parse_order with data_order: order_id or the except clause
                    /\ log' = log \o
                         (IF done.phase = "raised"
                          THEN <<EvError(w, p.main_url, url0, "_parse_order")>>
                          ELSE EvChildId(w, "order_id", parsers[done.who]))
                    /\ fresh' = closed.fresh
                    /\ poolOpen' = closed.pool
                    /\ stack' = [rest EXCEPT ![Len(rest)] = [caller EXCEPT !.phase = "roll"]]
                    /\ UNCHANGED parsers
               ELSE \* _parse_order without data_order: the repeated parse_page
                    /\ log' = IF done.phase = "raised"
                              THEN Append(log, EvError(w, p.main_url, url0, "_parse_order"))
                              ELSE log
                    /\ stack' = [rest EXCEPT ![Len(rest)] = [caller EXCEPT !.phase = "roll"]]
                    /\ UNCHANGED <<parsers, fresh, poolOpen>>
    /\ UNCHANGED <<cfg, url0, db, tblVars, stVars, pidVars, unitVars, dfVars>>

Next == ParseUrl \/ ParsePageEnter \/ DispatchBlock \/ LinkChildren \/ RollData \/ Resume

Spec == Init /\ [][Next]_vars

\* ---- what the history of one url says
Writes == {"insert", "main", "table", "error"}
\* the driver.get calls of _parse_order
Navigations == {k \in 1..Len(log) : log[k].ev = "nav"}
\* parse_url is through with the url
UrlDone == stack = <<>> /\ parsers["contract"].built
Known(w) == parsers[w].built /\ ~parsers[w].st.is_new

\* C1 (as claimed): an extractor constructed on a document whose id already
\* has a record traverses no block and writes nothing: no event of its own
\* in the history and, for the Contract the url was given to, no event at all
\* from its construction on (no placeholder of another entity, no error row).
C1_KnownWritesNothing ==
    \A w \in Who :
      Known(w) =>
        /\ \A k \in 1..Len(log) : log[k].who = w => log[k].ev \notin Writes \cup {"block"}
        /\ w = "contract" => \A k \in 1..Len(log) : log[k].ev \notin Writes \cup {"block"}

\* C2 (as claimed): a Contract without an Order on a driver still at the
\* original url navigates to the alternate view once, and never again,
\* whatever the navigation does.
C2_OneRenavigation ==
    Cardinality(Navigations) <= 1

\* an error entry written for a child that failed, and that child's url
IsChildFailure(e) ==
    \/ e.func = "_create_customer_section"
    \/ e.func = "_parse_order" /\ parsers["order"].built
ChildUrlsOf(e) == IF e.func = "_create_customer_section" THEN CustomerUrls ELSE {OrderUrl}
IsFragment(page) == \E i \in 1..Len(BlockNo) : page = Fragment(i)

\* C5 (as claimed): a block or child failure is caught and leaves an error
\* entry with the document's url, the block's fragment or the child's url,
\* and the failing step; the blocks after it are dispatched and the
\* link-children and consolidate steps run, so a parse_page that is past its
\* blocks has dispatched every one of them.
C5_FailureIsolated ==
    /\ \A k \in 1..Len(log) :
         log[k].ev = "error" =>
           /\ log[k].url = parsers[log[k].who].main_url
           /\ log[k].func = "parse_page" => IsFragment(log[k].page)
           /\ IsChildFailure(log[k]) => log[k].page \in ChildUrlsOf(log[k])
    /\ \A d \in 1..Len(stack) :
         stack[d].phase \in {"roll", "returned"} /\ parsers[stack[d].who].st.is_new =>
           stack[d].i = Len(stack[d].blocks)

\* C6 (as claimed): when the extraction of a url is over, every webdriver
\* made on demand for a child has been quit, and no driver of the pool ever is.
C6_ContextsReleased ==
    /\ UrlDone => \A k \in 1..Len(fresh) : ~fresh[k]
    /\ \A k \in 1..Len(poolOpen) : poolOpen[k]

\* ---- the Contract's link to its Order
OrderIds == {k \in 1..Len(log) : log[k].ev = "main" /\ log[k].func = "order_id"}
OrderErrors == {k \in 1..Len(log) : log[k].ev = "error" /\ log[k].who = "contract"
                                     /\ log[k].func = "_parse_order"}
OrderRolls == {k \in 1..Len(log) : log[k].who = "order" /\ log[k].ev = "roll"}
\* one step of the extraction, seen from the Order's parse_page call
OrderCallOver == stack # <<>> /\ Top.who = "order" /\ Finished(Top)
C22_Step ==
    /\ \A k \in (Len(log) + 1)..Len(log') :
         log'[k].ev = "main" /\ log'[k].func = "order_id" =>
           /\ OrderCallOver /\ Top.phase = "returned"
           /\ log'[k].who = "contract"
           /\ log'[k].id = parsers["order"].id
    /\ OrderCallOver /\ Top.phase = "raised" /\ Len(stack') < Len(stack) =>
         log' = Append(log, EvError("contract", parsers["contract"].main_url, url0,
                                    "_parse_order"))

\* C22: the Contract's record receives order_id only in the step that ends an
\* Order's parse_page which returned, and the value is the Order's id; an
\* Order's parse_page that raised leaves an error entry of _parse_order and
\* no order_id, and without an Order extractor there is never an order_id.
C22_OrderIdAfterOrder ==
    /\ [][C22_Step]_vars
    /\ [](/\ ~parsers["order"].built => OrderIds = {}
          /\ OrderIds # {} => OrderErrors = {} /\ Cardinality(OrderIds) = 1)

\* an Order that was new is extracted to its roll_data, and the Contract then
\* holds its id
C22_Witness ==
    /\ UrlDone /\ OrderIds # {}
    /\ OrderRolls # {}
    /\ \A k \in OrderIds : \A r \in OrderRolls : r < k /\ log[k].id = <<"3">>
\* an Order whose parse_page raised
C22_WitnessRaised ==
    UrlDone /\ parsers["order"].built /\ OrderErrors # {} /\ OrderIds = {}

\* ---- the Order's link to its Customer
CustomerIds == {k \in 1..Len(log) : log[k].who = "order" /\ log[k].ev = "main"
                                     /\ log[k].func = "customer_id"}
\* the Order's parse_page is past _add_child_id
OrderLinked == \E k \in 1..Len(log) : log[k].who = "order" /\ log[k].ev = "link"

\* C23 (as claimed): once the Order's extraction is past its link-children
\* step, its record holds customer_id with the Customer's id whenever a
\* Customer extractor was constructed and bound, new or known; it holds no
\* customer_id when the Customer page or extractor failed, and the Order's
\* blocks after the failure were still dispatched.
C23_CustomerIdLinked ==
    OrderLinked =>
      /\ parsers["order"].child =>
           /\ CustomerIds # {}
           /\ \A k \in CustomerIds : log[k].id = parsers["customer"].id
      /\ ~parsers["order"].child =>
           /\ CustomerIds = {}
           /\ \A d \in 1..Len(stack) :
                stack[d].who = "order" /\ stack[d].phase \in {"roll", "returned"} =>
                  stack[d].i = Len(stack[d].blocks)

\* ---- the Order a Contract binds
OrderInserted == \E k \in 1..Len(log) : log[k].who = "order" /\ log[k].ev = "insert"

\* C26 (as claimed): when the extraction of a Contract is over, an Order
\* whose placeholder row its constructor inserted has had its blocks
\* traversed by parse_page, up to the link-children step.
C26_InsertedOrderExtracted ==
    UrlDone /\ OrderInserted => OrderLinked

\* ---- the storage operations on the adapter of one entity
BlockWrite(e) == e.ev = "table" \/ (e.ev = "main" /\ e.func = "block")
LinkWrite(e) == e.ev = "main" /\ e.func \in {"customer_id", "order_id"}
AnyWrite(e) == e.ev \in {"main", "table", "error"}
Of(w) == {k \in 1..Len(log) : log[k].who = w}
Rolls(w) == {k \in Of(w) : log[k].ev = "roll"}
\* blocks in document order, nothing but a link write between the last block
\* write and roll_data, nothing after roll_data, and roll_data once the
\* link-children step was reached
OrderedFor(w) ==
    /\ \A k, l \in Of(w) :
         k < l =>
           /\ log[k].ev = "roll" => ~AnyWrite(log[l]) /\ log[l].ev # "roll"
           /\ LinkWrite(log[k]) => ~BlockWrite(log[l])
           /\ log[k].ev = "block" /\ log[l].ev = "block" => log[k].n < log[l].n
    /\ UrlDone /\ (\E k \in Of(w) : log[k].ev = "link") => Rolls(w) # {}

\* C20 (as claimed): on the adapter of every extracted entity the block
\* writes come in document order, then the link-children write, then
\* roll_data; roll_data runs exactly once and no write follows it.
C20_WritesThenLinkThenRoll == \A w \in Who : OrderedFor(w)

\* C20 (amended): this order holds for Customer and Order, and for a
\* Contract whose link-children step does not re-navigate. A Contract that
\* re-navigates runs parse_page again inside its link-children step, so
\* roll_data runs once per pass, at most once more than there were
\* navigations; a link-children write is never followed by a block write.
C20_OrderPerPass ==
    /\ OrderedFor("customer") /\ OrderedFor("order")
    /\ Navigations = {} => OrderedFor("contract")
    /\ Cardinality(Rolls("contract")) <= 1 + Cardinality(Navigations)
    /\ \A k, l \in Of("contract") : k < l /\ LinkWrite(log[k]) => ~BlockWrite(log[l])

\* C20 witness: the url is done; the Contract re-navigated once, wrote blocks
\* in both passes and rolled twice.
C20_Witness ==
    /\ UrlDone /\ Cardinality(Navigations) = 1 /\ Cardinality(Rolls("contract")) = 2
    /\ \E k, l \in Of("contract"), nav \in Navigations :
         k < nav /\ nav < l /\ BlockWrite(log[k]) /\ BlockWrite(log[l])

\* C20 witness of the unchanged part: the url is done with an Order and its
\* Customer extracted, each rolled once after its link-children step.
C20_WitnessChildren ==
    /\ UrlDone /\ Cardinality(Rolls("order")) = 1 /\ Cardinality(Rolls("customer")) = 1
    /\ \E k, l \in Of("order") : k < l /\ BlockWrite(log[k]) /\ LinkWrite(log[l])
    /\ \E k \in Of("contract") : LinkWrite(log[k])

====
